---- MODULE Spec2Model ----
(***************************************************************************)
(* Validation and normalisation of the ServeMate reservation DTOs          *)
(* (reservation.dto: ReservationSchema and the schemas derived from it).   *)
(*                                                                         *)
(* A JavaScript value is a tagged record; a string is a sequence of        *)
(* one-character strings, so that split, trim, toUpperCase and Number()    *)
(* are computed character by character.  A payload is a function from the  *)
(* key universe to values, Absent marking a key that is not in the object  *)
(* (which differs from a key that is present with the value undefined).    *)
(***************************************************************************)
EXTENDS Integers, Sequences, FiniteSets, TLC

VARIABLES input, result, now, prev, calls

vars == <<input, result, now, prev, calls>>

(* ------------------------------------------------------------------ *)
(* Bounds of the model                                                *)
(* ------------------------------------------------------------------ *)
MaxTokens == 2
MaxPad == 1
MaxClock == 1

(* ------------------------------------------------------------------ *)
(* JavaScript values                                                  *)
(* ------------------------------------------------------------------ *)
Undef == [t |-> "undefined"]
Absent == [t |-> "absent"]
Null == [t |-> "null"]
NaN == [t |-> "nan"]
InvalidDate == [t |-> "invalid_date"]
Bool(b) == [t |-> "boolean", v |-> b]
Num(n) == [t |-> "number", v |-> n]
Str(s) == [t |-> "string", v |-> s]
DateV(d) == [t |-> "date", v |-> d]
Arr(a) == [t |-> "array", v |-> a]
Obj(o) == [t |-> "object", v |-> o]

IsStr(x) == x.t = "string"
IsNum(x) == x.t = "number"
IsBool(x) == x.t = "boolean"
IsArr(x) == x.t = "array"
IsObj(x) == x.t = "object"
IsDate(x) == x.t = "date"

(* Result of one schema applied to one value *)
Ok(x) == [ok |-> TRUE, v |-> x]
Fail == [ok |-> FALSE, v |-> Undef]

(* ------------------------------------------------------------------ *)
(* Strings                                                            *)
(* ------------------------------------------------------------------ *)
LowerChars == <<"a","b","c","d","e","f","g","h","i","j","k","l","m",
                "n","o","p","q","r","s","t","u","v","w","x","y","z">>
UpperChars == <<"A","B","C","D","E","F","G","H","I","J","K","L","M",
                "N","O","P","Q","R","S","T","U","V","W","X","Y","Z">>
Digits == <<"0","1","2","3","4","5","6","7","8","9">>

IsLower(c) == \E i \in 1..Len(LowerChars) : LowerChars[i] = c
IsDigit(c) == \E i \in 1..Len(Digits) : Digits[i] = c
IsSpace(c) == c = " "
DigitVal(c) == (CHOOSE i \in 1..Len(Digits) : Digits[i] = c) - 1

UpperChar(c) ==
    IF IsLower(c)
    THEN UpperChars[CHOOSE i \in 1..Len(LowerChars) : LowerChars[i] = c]
    ELSE c

(* String.prototype.toUpperCase *)
toUpperCase(s) == [i \in 1..Len(s) |-> UpperChar(s[i])]

RECURSIVE TrimLeft(_)
TrimLeft(s) == IF Len(s) > 0 /\ IsSpace(s[1]) THEN TrimLeft(Tail(s)) ELSE s

RECURSIVE TrimRight(_)
TrimRight(s) ==
    IF Len(s) > 0 /\ IsSpace(s[Len(s)])
    THEN TrimRight(SubSeq(s, 1, Len(s) - 1))
    ELSE s

(* String.prototype.trim *)
trim(s) == TrimRight(TrimLeft(s))

RECURSIVE SplitFrom(_, _)
SplitFrom(s, cur) ==
    IF Len(s) = 0 THEN <<cur>>
    ELSE IF s[1] = "," THEN <<cur>> \o SplitFrom(Tail(s), <<>>)
    ELSE SplitFrom(Tail(s), Append(cur, s[1]))

(* String.prototype.split(',') : always at least one segment *)
split(s) == SplitFrom(s, <<>>)

(* Array.prototype.filter(Boolean) on an array of strings *)
NonEmpty(s) == Len(s) > 0
filterBoolean(a) == SelectSeq(a, NonEmpty)

RECURSIVE DigitsValue(_, _)
DigitsValue(s, acc) ==
    IF Len(s) = 0 THEN acc ELSE DigitsValue(Tail(s), acc * 10 + DigitVal(s[1]))

AllDigits(s) == Len(s) > 0 /\ \A i \in 1..Len(s) : IsDigit(s[i])

(* Number(str) for the decimal integer literals of the model's alphabet:  *)
(* surrounding white space is ignored, the empty string is 0, anything    *)
(* that is not an optionally signed run of digits is NaN.                 *)
StringToNumber(s) ==
    LET u == trim(s) IN
    IF Len(u) = 0 THEN Num(0)
    ELSE IF AllDigits(u) THEN Num(DigitsValue(u, 0))
    ELSE IF u[1] = "-" /\ AllDigits(Tail(u)) THEN Num(0 - DigitsValue(Tail(u), 0))
    ELSE NaN

(* new Date(str) for date-only ISO strings YYYY-MM-DD; any other string   *)
(* of the model's alphabet is an Invalid Date.                            *)
NewDate(s) ==
    IF /\ Len(s) = 10
       /\ s[5] = "-" /\ s[8] = "-"
       /\ AllDigits(SubSeq(s, 1, 4))
       /\ AllDigits(SubSeq(s, 6, 7))
       /\ AllDigits(SubSeq(s, 9, 10))
    THEN LET y == DigitsValue(SubSeq(s, 1, 4), 0)
             m == DigitsValue(SubSeq(s, 6, 7), 0)
             d == DigitsValue(SubSeq(s, 9, 10), 0)
         IN IF m \in 1..12 /\ d \in 1..31
            THEN DateV(y * 10000 + m * 100 + d)
            ELSE InvalidDate
    ELSE InvalidDate

(* Number(x), the coercion of z.coerce.number() *)
ToNumber(x) ==
    CASE x.t = "number" -> x
      [] x.t = "string" -> StringToNumber(x.v)
      [] x.t = "boolean" -> IF x.v THEN Num(1) ELSE Num(0)
      [] x.t = "null" -> Num(0)
      [] x.t = "date" -> Num(x.v)
      [] x.t = "array" ->
            IF Len(x.v) = 0 THEN Num(0)
            ELSE IF Len(x.v) > 1 THEN NaN
            ELSE IF x.v[1].t = "number" THEN x.v[1]
            ELSE IF x.v[1].t = "string" THEN StringToNumber(x.v[1].v)
            ELSE IF x.v[1].t \in {"null", "undefined"} THEN Num(0)
            ELSE NaN
      [] OTHER -> NaN

(* ------------------------------------------------------------------ *)
(* Enumerations                                                       *)
(* ------------------------------------------------------------------ *)
PENDING == <<"P","E","N","D","I","N","G">>
CONFIRMED == <<"C","O","N","F","I","R","M","E","D">>
CANCELLED == <<"C","A","N","C","E","L","L","E","D">>
ReservationStatus == {PENDING, CONFIRMED, CANCELLED}

GLUTEN == <<"G","L","U","T","E","N">>
DAIRY == <<"D","A","I","R","Y">>
SOY == <<"S","O","Y">>
PEANUT == <<"P","E","A","N","U","T">>
SHELLFISH == <<"S","H","E","L","L","F","I","S","H">>
CELERY == <<"C","E","L","E","R","Y">>
NONE == <<"N","O","N","E">>
Allergies == {GLUTEN, DAIRY, SOY, PEANUT, SHELLFISH, CELERY, NONE}

(* ------------------------------------------------------------------ *)
(* Zod combinators                                                    *)
(* ------------------------------------------------------------------ *)
(* .optional(): undefined is accepted as undefined, the inner schema   *)
(* (r is its result on x) is not consulted.                            *)
optional(x, r) == IF x = Undef THEN Ok(Undef) ELSE r

(* .nullable() *)
nullable(x, r) == IF x = Null THEN Ok(Null) ELSE r

(* z.union([a, b]): the first option that accepts the input *)
union(a, b) == IF a.ok THEN a ELSE b

(* z.string() *)
zString(x) == IF IsStr(x) THEN Ok(x) ELSE Fail

(* z.boolean() *)
zBoolean(x) == IF IsBool(x) THEN Ok(x) ELSE Fail

(* z.date(): a Date object whose time value is not NaN *)
zDate(x) == IF IsDate(x) THEN Ok(x) ELSE Fail

(* zNumberIntPositive without the .positive() check *)
zNumberIntPositive_AllowNegative(x) == IF IsNum(x) THEN Ok(x) ELSE Fail

(* z.number().int().positive() on the model's integers *)
zNumberIntPositive(x) == IF IsNum(x) /\ x.v > 0 THEN Ok(x) ELSE Fail

(* z.coerce.number().int().positive() *)
zCoerceNumberIntPositive(x) == zNumberIntPositive(ToNumber(x))

(* z.nativeEnum(E) *)
zNativeEnum(E, x) == IF IsStr(x) /\ x.v \in E THEN Ok(x) ELSE Fail

(* z.array(z.nativeEnum(E)) *)
zArrayOfEnum(E, x) ==
    IF IsArr(x) /\ \A i \in 1..Len(x.v) : zNativeEnum(E, x.v[i]).ok
    THEN Ok(x) ELSE Fail

(* z.string().email(): local@label.tld with a tld of two letters or more *)
IsLetter(c) == IsLower(c) \/ (\E i \in 1..Len(UpperChars) : UpperChars[i] = c)
IsAlnum(c) == IsLetter(c) \/ IsDigit(c)
EmailOk(s) ==
    \E a \in 2..Len(s), d \in 2..Len(s) :
        /\ s[a] = "@" /\ s[d] = "." /\ a + 1 < d /\ d + 2 <= Len(s)
        /\ \A i \in 1..(a - 1) : IsAlnum(s[i])
        /\ \A i \in (a + 1)..(d - 1) : IsAlnum(s[i])
        /\ \A i \in (d + 1)..Len(s) : IsLetter(s[i])
zStringEmail(x) == IF IsStr(x) /\ EmailOk(x.v) THEN Ok(x) ELSE Fail

(* ------------------------------------------------------------------ *)
(* tables.dto: TableBaseTableSchema.shape.id                          *)
(* ------------------------------------------------------------------ *)
TableBaseTableSchema_id(x) == zNumberIntPositive(x)

(* TableBaseTableSchema.pick({ id: true }) applied to one array element *)
TableIdentity(x) ==
    IF IsObj(x) /\ "id" \in DOMAIN x.v /\ TableBaseTableSchema_id(x.v.id).ok
    THEN Ok(Obj([id |-> x.v.id])) ELSE Fail

(* ------------------------------------------------------------------ *)
(* ReservationSchema, field by field                                  *)
(* ------------------------------------------------------------------ *)
ReservationSchema_id(x) == zCoerceNumberIntPositive(x)

ReservationSchema_guestsCount(x) == zCoerceNumberIntPositive(x)

(* z.union([z.string().transform((time) => new Date(time)), z.date()]) *)
ReservationSchema_time(x) ==
    union(IF IsStr(x) THEN Ok(NewDate(x.v)) ELSE Fail, zDate(x))

ReservationSchema_name(x) == zString(x)

ReservationSchema_email(x) == optional(x, nullable(x, zStringEmail(x)))

ReservationSchema_phone(x) == zString(x)

(* StatusInner without the upper-casing transform *)
StatusInner_NoUpperCase(x) ==
    IF IsStr(x) THEN zNativeEnum(ReservationStatus, x) ELSE Fail

(* z.string().transform(toUpperCase).pipe(z.nativeEnum(ReservationStatus)) *)
StatusInner(x) ==
    IF IsStr(x) THEN zNativeEnum(ReservationStatus, Str(toUpperCase(x.v))) ELSE Fail

(* ReservationSchema_status without the .default(...) *)
ReservationSchema_status_NoDefault(x) == StatusInner(x)

(* ... .default(ReservationStatus.PENDING) *)
ReservationSchema_status(x) ==
    IF x = Undef THEN StatusInner(Str(PENDING)) ELSE StatusInner(x)

(* first option of the allergies union *)
AllergiesFromArray(x) ==
    IF IsArr(x) /\ \A i \in 1..Len(x.v) : IsStr(x.v[i])
    THEN Ok(Arr([i \in 1..Len(x.v) |-> Str(toUpperCase(x.v[i].v))]))
    ELSE Fail

(* AllergiesSplit without the upper-casing of the segments *)
AllergiesSplit_NoUpperCase(str) ==
    IF Len(str) = 0 THEN <<>>
    ELSE LET parts == split(str) IN
         filterBoolean([i \in 1..Len(parts) |-> trim(parts[i])])

(* AllergiesSplit without the trimming of the segments *)
AllergiesSplit_NoTrim(str) ==
    IF Len(str) = 0 THEN <<>>
    ELSE LET parts == split(str) IN
         filterBoolean([i \in 1..Len(parts) |-> toUpperCase(parts[i])])

(* the transform of the second option: str => string[] *)
AllergiesSplit(str) ==
    IF Len(str) = 0 THEN <<>>
    ELSE LET parts == split(str) IN
         filterBoolean([i \in 1..Len(parts) |-> toUpperCase(trim(parts[i]))])

(* second option of the allergies union *)
AllergiesFromString(x) ==
    IF IsStr(x)
    THEN LET a == AllergiesSplit(x.v) IN Ok(Arr([i \in 1..Len(a) |-> Str(a[i])]))
    ELSE Fail

ReservationSchema_allergies(x) ==
    LET u == union(AllergiesFromArray(x), AllergiesFromString(x)) IN
    IF u.ok THEN zArrayOfEnum(Allergies, u.v) ELSE Fail

(* first option of the tables union *)
TablesFromArray(x) ==
    IF IsArr(x) /\ \A i \in 1..Len(x.v) : TableIdentity(x.v[i]).ok
    THEN Ok(Arr([i \in 1..Len(x.v) |-> TableIdentity(x.v[i]).v]))
    ELSE Fail

(* TablesSplit without the guard for the empty string *)
TablesSplit_NoEmptyGuard(tables) ==
    LET parts == split(tables) IN
    [i \in 1..Len(parts) |-> StringToNumber(trim(parts[i]))]

(* the transform of the second option: tables => number[] *)
TablesSplit(tables) ==
    IF Len(tables) = 0 THEN <<>>
    ELSE LET parts == split(tables) IN
         [i \in 1..Len(parts) |-> StringToNumber(trim(parts[i]))]

(* second option of the tables union *)
TablesFromString(x) == IF IsStr(x) THEN Ok(Arr(TablesSplit(x.v))) ELSE Fail

(* the target of the pipe: z.array(TableBaseTableSchema.shape.id).default([]) *)
TablesPipeOut(x) ==
    LET d == IF x = Undef THEN Arr(<<>>) ELSE x IN
    IF IsArr(d) /\ \A i \in 1..Len(d.v) : TableBaseTableSchema_id(d.v[i]).ok
    THEN Ok(d) ELSE Fail

ReservationSchema_tables(x) ==
    LET u == union(TablesFromArray(x), TablesFromString(x)) IN
    IF u.ok THEN TablesPipeOut(u.v) ELSE Fail

ReservationSchema_comments(x) == optional(x, nullable(x, zString(x)))

(* z.date().default(() => new Date()) ; clk is the current time *)
ReservationSchema_createdAt(x, clk) ==
    IF x = Undef THEN zDate(DateV(clk)) ELSE zDate(x)

ReservationSchema_updatedAt(x) == zDate(x)

STRUE == <<"t","r","u","e">>
SFALSE == <<"f","a","l","s","e">>

(* IsActiveFromString comparing the literals without regard to case *)
IsActiveFromString_IgnoreCase(isActive) ==
    IF toUpperCase(isActive) = toUpperCase(STRUE) THEN Bool(TRUE)
    ELSE IF toUpperCase(isActive) = toUpperCase(SFALSE) THEN Bool(FALSE)
    ELSE Undef

(* the transform of the string option of isActive *)
IsActiveFromString(isActive) ==
    IF isActive = STRUE THEN Bool(TRUE)
    ELSE IF isActive = SFALSE THEN Bool(FALSE)
    ELSE Undef

(* z.union([z.boolean(), z.string().transform(...)]) *)
IsActiveUnion(x) ==
    union(zBoolean(x), IF IsStr(x) THEN Ok(IsActiveFromString(x.v)) ELSE Fail)

(* ... .default(true) *)
ReservationSchema_isActive(x) ==
    IF x = Undef THEN IsActiveUnion(Bool(TRUE)) ELSE IsActiveUnion(x)

(* ------------------------------------------------------------------ *)
(* global: searchCriteriaSchema (page, pageSize, sortOrder)           *)
(* ------------------------------------------------------------------ *)
DefaultPage == 1
DefaultPageSize == 10
MaxPageSize == 100
ASC == <<"a","s","c">>
DESC == <<"d","e","s","c">>

searchCriteriaSchema_page(x) ==
    LET n == ToNumber(IF x = Undef THEN Num(DefaultPage) ELSE x) IN
    IF IsNum(n) /\ n.v >= 1 THEN Ok(n) ELSE Fail

searchCriteriaSchema_pageSize(x) ==
    LET n == ToNumber(IF x = Undef THEN Num(DefaultPageSize) ELSE x) IN
    IF IsNum(n) /\ n.v >= 1 /\ n.v <= MaxPageSize THEN Ok(n) ELSE Fail

searchCriteriaSchema_sortOrder(x) ==
    LET d == IF x = Undef THEN Str(ASC) ELSE x IN
    IF IsStr(d) /\ d.v \in {ASC, DESC} THEN Ok(d) ELSE Fail

(* ------------------------------------------------------------------ *)
(* Objects                                                            *)
(* ------------------------------------------------------------------ *)
ReservationKeys ==
    {"id", "guestsCount", "time", "name", "email", "phone", "status",
     "allergies", "tables", "comments", "createdAt", "updatedAt", "isActive"}
PaginationKeys == {"page", "pageSize", "sortOrder"}
SearchOnlyKeys == {"sortBy", "guestsCountMin", "guestsCountMax", "timeStart", "timeEnd"}
UserOnlyKeys == {"role", "password", "createdAfter", "createdBefore"}
PaymentOnlyKeys ==
    {"amount", "tax", "tip", "serviceCharge", "paymentType", "orderId", "completedAt"}
TableOnlyKeys == {"tableNumber", "capacity"}
OrderOnlyKeys == {"serverId", "foodItems", "drinkItems"}
ItemOnlyKeys == {"description", "price", "ingredients"}
UnknownKeys == {"extra"}
AllKeys ==
    ReservationKeys \cup PaginationKeys \cup SearchOnlyKeys \cup UserOnlyKeys
        \cup PaymentOnlyKeys \cup TableOnlyKeys \cup OrderOnlyKeys \cup ItemOnlyKeys
        \cup UnknownKeys

EmptyObject == [k \in AllKeys |-> Absent]

(* data[key] of a JavaScript object: undefined when the key is absent *)
Get(data, k) == IF data[k] = Absent THEN Undef ELSE data[k]

(* Object.keys(data) *)
ObjectKeys(data) == {k \in AllKeys : data[k] # Absent}

(* ZodObject stopping at the first key that fails *)
ZodObject_FirstIssueOnly(keys, fr, data) ==
    LET bad == {k \in keys : ~fr[k].ok} IN
    IF bad # {}
    THEN [ok |-> FALSE, value |-> EmptyObject, issues |-> {CHOOSE k \in bad : TRUE}]
    ELSE [ok |-> TRUE,
          value |-> [k \in AllKeys |->
                        IF k \in keys /\ (fr[k].v # Undef \/ data[k] # Absent)
                        THEN fr[k].v ELSE Absent],
          issues |-> {}]

(* ZodObject._parse with the default "strip" policy: every key of the   *)
(* shape is parsed (fr[k] is the result of its schema on data[k]); the  *)
(* parse fails if any key fails, and reports all of them; the output    *)
(* holds a shape key when its value is defined or the key is in data.   *)
ZodObject(keys, fr, data) ==
    LET bad == {k \in keys : ~fr[k].ok} IN
    IF bad # {}
    THEN [ok |-> FALSE, value |-> EmptyObject, issues |-> bad]
    ELSE [ok |-> TRUE,
          value |-> [k \in AllKeys |->
                        IF k \in keys /\ (fr[k].v # Undef \/ data[k] # Absent)
                        THEN fr[k].v ELSE Absent],
          issues |-> {}]

RootPath == "(root)"

(* .refine(check): runs only when the inner parse succeeded *)
refine(r, check) ==
    IF ~r.ok THEN r
    ELSE IF check THEN r
    ELSE [ok |-> FALSE, value |-> EmptyObject, issues |-> {RootPath}]

(* the shape of ReservationSchema *)
ReservationShape(k, x, clk) ==
    CASE k = "id" -> ReservationSchema_id(x)
      [] k = "guestsCount" -> ReservationSchema_guestsCount(x)
      [] k = "time" -> ReservationSchema_time(x)
      [] k = "name" -> ReservationSchema_name(x)
      [] k = "email" -> ReservationSchema_email(x)
      [] k = "phone" -> ReservationSchema_phone(x)
      [] k = "status" -> ReservationSchema_status(x)
      [] k = "allergies" -> ReservationSchema_allergies(x)
      [] k = "tables" -> ReservationSchema_tables(x)
      [] k = "comments" -> ReservationSchema_comments(x)
      [] k = "createdAt" -> ReservationSchema_createdAt(x, clk)
      [] k = "updatedAt" -> ReservationSchema_updatedAt(x)
      [] k = "isActive" -> ReservationSchema_isActive(x)

(* PartialShape letting the default of the wrapped field through *)
PartialShape_DefaultsKept(k, x, clk) ==
    IF x = Undef
    THEN IF ReservationShape(k, x, clk).ok THEN ReservationShape(k, x, clk) ELSE Ok(Undef)
    ELSE ReservationShape(k, x, clk)

(* .partial(): every field of the shape wrapped in .optional() *)
PartialShape(k, x, clk) == optional(x, ReservationShape(k, x, clk))

ReservationSchema(data, clk) ==
    ZodObject(ReservationKeys,
              [k \in ReservationKeys |-> ReservationShape(k, Get(data, k), clk)],
              data)

(* CreateReservationKeys with id left in the shape *)
CreateReservationKeys_KeepId == ReservationKeys \ {"updatedAt", "createdAt", "isActive"}

CreateReservationKeys == ReservationKeys \ {"id", "updatedAt", "createdAt", "isActive"}

CreateReservationSchema(data, clk) ==
    ZodObject(CreateReservationKeys,
              [k \in CreateReservationKeys |-> ReservationShape(k, Get(data, k), clk)],
              data)

(* AtLeastOneField with >= for > : the empty object passes *)
AtLeastOneField_AllowEmpty(data) == Cardinality(ObjectKeys(data)) >= 0

(* AtLeastOneField off by one: a single key is not enough *)
AtLeastOneField_OffByOne(data) == Cardinality(ObjectKeys(data)) > 1

(* the refinement of both update schemas: Object.keys(data).length > 0 *)
AtLeastOneField(data) == Cardinality(ObjectKeys(data)) > 0

UpdateReservationKeys == ReservationKeys \ {"createdAt", "updatedAt", "id"}

(* UpdateReservationSchema with the refinement run on the raw payload *)
UpdateReservationSchema_RefineOnInput(data, clk) ==
    LET r == ZodObject(UpdateReservationKeys,
                       [k \in UpdateReservationKeys |-> PartialShape(k, Get(data, k), clk)],
                       data)
    IN refine(r, AtLeastOneField(data))

UpdateReservationSchema(data, clk) ==
    LET r == ZodObject(UpdateReservationKeys,
                       [k \in UpdateReservationKeys |-> PartialShape(k, Get(data, k), clk)],
                       data)
    IN refine(r, AtLeastOneField(r.value))

ReservationGuestInfoKeys == {"email", "name", "phone", "allergies", "guestsCount"}

ReservationGuestInfoSchema(data, clk) ==
    LET r == ZodObject(ReservationGuestInfoKeys,
                       [k \in ReservationGuestInfoKeys |-> PartialShape(k, Get(data, k), clk)],
                       data)
    IN refine(r, AtLeastOneField(r.value))

SearchPickKeys ==
    {"name", "email", "phone", "status", "guestsCount", "time", "allergies",
     "tables", "isActive"}
ReservationSearchKeys == PaginationKeys \cup SearchPickKeys \cup SearchOnlyKeys

TIME == <<"t","i","m","e">>

(* ReservationSearchShape with sortBy optional instead of defaulted *)
ReservationSearchShape_NoSortByDefault(k, x, clk) ==
    CASE k = "page" -> searchCriteriaSchema_page(x)
      [] k = "pageSize" -> searchCriteriaSchema_pageSize(x)
      [] k = "sortOrder" -> searchCriteriaSchema_sortOrder(x)
      [] k = "sortBy" -> optional(x, zString(x))
      [] k = "guestsCountMin" -> optional(x, zCoerceNumberIntPositive(x))
      [] k = "guestsCountMax" -> optional(x, zCoerceNumberIntPositive(x))
      [] k = "timeStart" -> optional(x, ReservationSchema_time(x))
      [] k = "timeEnd" -> optional(x, ReservationSchema_time(x))
      [] OTHER -> PartialShape(k, x, clk)

(* ReservationSearchShape with page and pageSize overridden by plain *)
(* coerced numbers, the bounds of searchCriteriaSchema lost          *)
ReservationSearchShape_UnboundedPaging(k, x, clk) ==
    CASE k = "page" -> Ok(ToNumber(IF x = Undef THEN Num(DefaultPage) ELSE x))
      [] k = "pageSize" -> Ok(ToNumber(IF x = Undef THEN Num(DefaultPageSize) ELSE x))
      [] k = "sortOrder" -> searchCriteriaSchema_sortOrder(x)
      [] k = "sortBy" -> zString(IF x = Undef THEN Str(TIME) ELSE x)
      [] k = "guestsCountMin" -> optional(x, zCoerceNumberIntPositive(x))
      [] k = "guestsCountMax" -> optional(x, zCoerceNumberIntPositive(x))
      [] k = "timeStart" -> optional(x, ReservationSchema_time(x))
      [] k = "timeEnd" -> optional(x, ReservationSchema_time(x))
      [] OTHER -> PartialShape(k, x, clk)

(* the shape of ReservationSearchCriteria *)
ReservationSearchShape(k, x, clk) ==
    CASE k = "page" -> searchCriteriaSchema_page(x)
      [] k = "pageSize" -> searchCriteriaSchema_pageSize(x)
      [] k = "sortOrder" -> searchCriteriaSchema_sortOrder(x)
      [] k = "sortBy" -> zString(IF x = Undef THEN Str(TIME) ELSE x)
      [] k = "guestsCountMin" -> optional(x, zCoerceNumberIntPositive(x))
      [] k = "guestsCountMax" -> optional(x, zCoerceNumberIntPositive(x))
      [] k = "timeStart" -> optional(x, ReservationSchema_time(x))
      [] k = "timeEnd" -> optional(x, ReservationSchema_time(x))
      [] OTHER -> PartialShape(k, x, clk)

ReservationSearchCriteria(data, clk) ==
    ZodObject(ReservationSearchKeys,
              [k \in ReservationSearchKeys |-> ReservationSearchShape(k, Get(data, k), clk)],
              data)

(* ------------------------------------------------------------------ *)
(* global: parseQueryArray, arrayQueryParamSchema                     *)
(* ------------------------------------------------------------------ *)
(* parseQueryArray without the removal of the empty segments *)
parseQueryArray_KeepEmpty(value) ==
    IF value = Undef THEN <<>>
    ELSE IF IsArr(value) THEN value.v
    ELSE IF Len(value.v) = 0 THEN <<>>
    ELSE LET parts == split(value.v) IN
         [i \in 1..Len(parts) |-> Str(trim(parts[i]))]

(* value is undefined, a string or an array of strings *)
parseQueryArray(value) ==
    IF value = Undef THEN <<>>
    ELSE IF IsArr(value) THEN value.v
    ELSE IF Len(value.v) = 0 THEN <<>>
    ELSE LET parts == split(value.v) IN
         LET a == filterBoolean([i \in 1..Len(parts) |-> trim(parts[i])]) IN
         [i \in 1..Len(a) |-> Str(a[i])]

arrayQueryParamSchema(x) ==
    IF IsStr(x) \/ (IsArr(x) /\ \A i \in 1..Len(x.v) : IsStr(x.v[i]))
    THEN Ok(Arr(parseQueryArray(x)))
    ELSE Fail

(* ------------------------------------------------------------------ *)
(* user.dto: UpdateUserSchema, UserParamSchema                        *)
(* ------------------------------------------------------------------ *)
ADMIN == <<"A","D","M","I","N">>
USER == <<"U","S","E","R">>
HOST == <<"H","O","S","T">>
MANAGER == <<"M","A","N","A","G","E","R">>
UserRole == {ADMIN, USER, HOST, MANAGER}

UserSchema_name(x) == IF IsStr(x) /\ Len(x.v) >= 1 THEN Ok(x) ELSE Fail
UserSchema_role(x) == zNativeEnum(UserRole, x)
UserSchema_password(x) == zString(x)

UpdateUserKeys == {"name", "email", "role", "isActive", "password"}

UpdateUserShape(k, x) ==
    CASE k = "name" -> optional(x, UserSchema_name(x))
      [] k = "email" -> optional(x, zStringEmail(x))
      [] k = "role" -> optional(x, UserSchema_role(x))
      [] k = "isActive" -> optional(x, zBoolean(x))
      [] k = "password" -> optional(x, UserSchema_password(x))

UpdateUserSchema(data) ==
    LET r == ZodObject(UpdateUserKeys,
                       [k \in UpdateUserKeys |-> UpdateUserShape(k, Get(data, k))],
                       data)
    IN refine(r, AtLeastOneField(r.value))

(* boolean-from-string: a boolean, or the literals "true" / "false" *)
BooleanFromString(x) ==
    IF IsBool(x) THEN Ok(x)
    ELSE IF IsStr(x) THEN Ok(IsActiveFromString(x.v))
    ELSE Fail

(* date-from-string: a date, or a string that parses to a valid date *)
DateFromString(x) ==
    IF IsStr(x) THEN zDate(NewDate(x.v)) ELSE zDate(x)

(* case-insensitive enum *)
UserParamSchema_role(x) ==
    IF IsStr(x) THEN zNativeEnum(UserRole, Str(toUpperCase(x.v))) ELSE Fail

UserParamKeys ==
    {"id", "name", "email", "role", "isActive", "createdAfter", "createdBefore",
     "page", "pageSize", "sortOrder"}

UserParamShape(k, x) ==
    CASE k = "id" -> optional(x, zCoerceNumberIntPositive(x))
      [] k = "name" -> optional(x, zString(x))
      [] k = "email" -> optional(x, zString(x))
      [] k = "role" -> optional(x, UserParamSchema_role(x))
      [] k = "isActive" -> optional(x, BooleanFromString(x))
      [] k = "createdAfter" -> optional(x, DateFromString(x))
      [] k = "createdBefore" -> optional(x, DateFromString(x))
      [] k = "page" -> searchCriteriaSchema_page(x)
      [] k = "pageSize" -> searchCriteriaSchema_pageSize(x)
      [] k = "sortOrder" -> searchCriteriaSchema_sortOrder(x)

UserParamSchema(data) ==
    ZodObject(UserParamKeys,
              [k \in UserParamKeys |-> UserParamShape(k, Get(data, k))],
              data)

(* ------------------------------------------------------------------ *)
(* orders.dto: OrderUpdateProps                                       *)
(* ------------------------------------------------------------------ *)
AWAITING == <<"A","W","A","I","T","I","N","G">>
RECEIVED == <<"R","E","C","E","I","V","E","D">>
SERVED == <<"S","E","R","V","E","D">>
CANCELED == <<"C","A","N","C","E","L","E","D">>
DISPUTED == <<"D","I","S","P","U","T","E","D">>
READY_TO_PAY == <<"R","E","A","D","Y","_","T","O","_","P","A","Y">>
COMPLETED == <<"C","O","M","P","L","E","T","E","D">>
OrderState == {AWAITING, RECEIVED, SERVED, CANCELED, DISPUTED, READY_TO_PAY, COMPLETED}

OrderUpdateKeys == {"status", "comments", "guestsCount"}

OrderUpdateShape(k, x) ==
    CASE k = "status" -> optional(x, zNativeEnum(OrderState, x))
      [] k = "comments" -> optional(x, nullable(x, zString(x)))
      [] k = "guestsCount" -> optional(x, zCoerceNumberIntPositive(x))

OrderUpdateProps(data) ==
    LET r == ZodObject(OrderUpdateKeys,
                       [k \in OrderUpdateKeys |-> OrderUpdateShape(k, Get(data, k))],
                       data)
    IN refine(r, AtLeastOneField(r.value))

(* ------------------------------------------------------------------ *)
(* payment.dto: PaymentSchema                                         *)
(* ------------------------------------------------------------------ *)
PAID == <<"P","A","I","D">>
PaymentState == {PENDING, PAID, CANCELLED}
CASH == <<"C","A","S","H">>
CREDIT_CARD == <<"C","R","E","D","I","T","_","C","A","R","D">>
PaymentMethod == {CASH, CREDIT_CARD}

(* a monetary field: a non-negative number *)
NonNegative(x) == IF IsNum(x) /\ x.v >= 0 THEN Ok(x) ELSE Fail

(* a monetary field that defaults to zero *)
NonNegativeDefaultZero(x) == NonNegative(IF x = Undef THEN Num(0) ELSE x)

(* numeric-from-string: a number or a numeric string, nothing else *)
NumericFromString(x) ==
    IF IsNum(x) THEN x
    ELSE IF IsStr(x) /\ Len(trim(x.v)) > 0 THEN StringToNumber(x.v)
    ELSE NaN

(* numeric-from-string, a positive integer *)
PositiveFromString(x) == zNumberIntPositive(NumericFromString(x))

PaymentKeys ==
    {"id", "amount", "tax", "tip", "serviceCharge", "paymentType", "orderId",
     "status", "createdAt", "completedAt"}

PaymentShape(k, x) ==
    CASE k = "id" -> PositiveFromString(x)
      [] k = "amount" -> NonNegative(x)
      [] k = "tax" -> NonNegativeDefaultZero(x)
      [] k = "tip" -> NonNegativeDefaultZero(x)
      [] k = "serviceCharge" -> NonNegativeDefaultZero(x)
      [] k = "paymentType" -> zNativeEnum(PaymentMethod, x)
      [] k = "orderId" -> PositiveFromString(x)
      [] k = "status" -> zNativeEnum(PaymentState, x)
      [] k = "createdAt" -> DateFromString(x)
      [] k = "completedAt" -> DateFromString(x)

PaymentSchema(data) ==
    ZodObject(PaymentKeys, [k \in PaymentKeys |-> PaymentShape(k, Get(data, k))], data)

(* ------------------------------------------------------------------ *)
(* orders.dto: OrderCreateSchema, OrderUpdateItemsSchema, PrepareItems *)
(* ------------------------------------------------------------------ *)
(* one ordered item: { price, itemId, specialRequest } *)
OrderItemOk(x) ==
    /\ IsObj(x)
    /\ {"price", "itemId"} \subseteq DOMAIN x.v
    /\ NonNegative(x.v.price).ok
    /\ zNumberIntPositive(x.v.itemId).ok

(* the items of one guest: { guestNumber, items } *)
GuestItemsOk(x) ==
    /\ IsObj(x)
    /\ {"guestNumber", "items"} \subseteq DOMAIN x.v
    /\ zNumberIntPositive(x.v.guestNumber).ok
    /\ IsArr(x.v.items)
    /\ \A i \in 1..Len(x.v.items.v) : OrderItemOk(x.v.items.v[i])

(* foodItems / drinkItems of an order: a list of guest entries, default [] *)
GuestItemsList(x) ==
    LET d == IF x = Undef THEN Arr(<<>>) ELSE x IN
    IF IsArr(d) /\ \A i \in 1..Len(d.v) : GuestItemsOk(d.v[i]) THEN Ok(d) ELSE Fail

(* HasItems looking at foodItems only *)
HasItems_FoodOnly(value) == Len(value["foodItems"].v) > 0

(* the refinement of the order schemas: some food or drink item is ordered *)
HasItems(value) == Len(value["foodItems"].v) > 0 \/ Len(value["drinkItems"].v) > 0

OrderUpdateItemsKeys == {"foodItems", "drinkItems"}

OrderUpdateItemsSchema(data) ==
    LET r == ZodObject(OrderUpdateItemsKeys,
                       [k \in OrderUpdateItemsKeys |-> GuestItemsList(Get(data, k))],
                       data)
    IN refine(r, r.ok /\ HasItems(r.value))

OrderCreateKeys == {"tableNumber", "guestsCount", "serverId", "foodItems", "drinkItems"}

OrderCreateShape(k, x) ==
    IF k \in OrderUpdateItemsKeys THEN GuestItemsList(x) ELSE PositiveFromString(x)

OrderCreateSchema(data) ==
    LET r == ZodObject(OrderCreateKeys,
                       [k \in OrderCreateKeys |-> OrderCreateShape(k, Get(data, k))],
                       data)
    IN refine(r, r.ok /\ HasItems(r.value))

(* one prepared item: { id, price, ... } *)
PreparedItemOk(x) ==
    /\ IsObj(x)
    /\ {"id", "price"} \subseteq DOMAIN x.v
    /\ zNumberIntPositive(x.v.id).ok
    /\ NonNegative(x.v.price).ok

PreparedList(x) ==
    IF IsArr(x) /\ \A i \in 1..Len(x.v) : PreparedItemOk(x.v[i]) THEN Ok(x) ELSE Fail

PrepareItems(data) ==
    ZodObject(OrderUpdateItemsKeys,
              [k \in OrderUpdateItemsKeys |-> PreparedList(Get(data, k))],
              data)

(* ------------------------------------------------------------------ *)
(* items.dto: baseItemSchema                                          *)
(* ------------------------------------------------------------------ *)
LowerChar(c) ==
    IF \E i \in 1..Len(UpperChars) : UpperChars[i] = c
    THEN LowerChars[CHOOSE i \in 1..Len(UpperChars) : UpperChars[i] = c]
    ELSE c

(* String.prototype.toLowerCase *)
toLowerCase(s) == [i \in 1..Len(s) |-> LowerChar(s[i])]

(* TitleCase leaving the letters after the first as they are *)
TitleCase_UpperFirstOnly(s) ==
    IF Len(s) = 0 THEN s ELSE <<UpperChar(s[1])>> \o Tail(s)

(* title case: first letter upper, rest lower *)
TitleCase(s) ==
    IF Len(s) = 0 THEN s ELSE <<UpperChar(s[1])>> \o toLowerCase(Tail(s))

(* a comma-separated string of ingredients: trimmed, non-empty, title case *)
IngredientsSplit(str) ==
    IF Len(str) = 0 THEN <<>>
    ELSE LET parts == split(str) IN
         LET a == filterBoolean([i \in 1..Len(parts) |-> trim(parts[i])]) IN
         [i \in 1..Len(a) |-> TitleCase(a[i])]

baseItemSchema_ingredients(x) ==
    IF IsStr(x)
    THEN LET a == IngredientsSplit(x.v) IN Ok(Arr([i \in 1..Len(a) |-> Str(a[i])]))
    ELSE IF IsArr(x) /\ \A i \in 1..Len(x.v) : IsStr(x.v[i])
    THEN Ok(x)
    ELSE Fail

BaseItemKeys == {"id", "name", "description", "price", "ingredients"}

BaseItemShape(k, x) ==
    CASE k = "id" -> PositiveFromString(x)
      [] k = "name" -> zString(x)
      [] k = "description" -> zString(x)
      [] k = "price" -> NonNegative(x)
      [] k = "ingredients" -> baseItemSchema_ingredients(x)

baseItemSchema(data) ==
    ZodObject(BaseItemKeys, [k \in BaseItemKeys |-> BaseItemShape(k, Get(data, k))], data)

(* ------------------------------------------------------------------ *)
(* tables.dto: TableCreateSchema, TableSearchCriteriaSchema           *)
(* ------------------------------------------------------------------ *)
TableCreateKeys == {"tableNumber", "capacity"}

TableCreateSchema(data) ==
    ZodObject(TableCreateKeys,
              [k \in TableCreateKeys |-> PositiveFromString(Get(data, k))],
              data)

S_id == <<"i","d">>
S_tableNumber == <<"t","a","b","l","e","N","u","m","b","e","r">>
S_capacity == <<"c","a","p","a","c","i","t","y">>
TableSortOptionsEnum == {S_id, S_tableNumber, S_capacity}

TableSearchKeys == PaginationKeys \cup {"sortBy", "tableNumber"}

TableSearchShape(k, x) ==
    CASE k = "page" -> searchCriteriaSchema_page(x)
      [] k = "pageSize" -> searchCriteriaSchema_pageSize(x)
      [] k = "sortOrder" -> searchCriteriaSchema_sortOrder(x)
      [] k = "sortBy" -> zNativeEnum(TableSortOptionsEnum, IF x = Undef THEN Str(S_id) ELSE x)
      [] k = "tableNumber" -> optional(x, PositiveFromString(x))

TableSearchCriteriaSchema(data) ==
    ZodObject(TableSearchKeys,
              [k \in TableSearchKeys |-> TableSearchShape(k, Get(data, k))],
              data)

(* ------------------------------------------------------------------ *)
(* Payloads handed to the schemas                                     *)
(* ------------------------------------------------------------------ *)
S_7 == <<"7">>
S_4 == <<"4">>
S_abc == <<"a","b","c">>
S_1 == <<"1">>
S_2 == <<"2">>
S_0 == <<"0">>
S_20 == <<"2","0">>
S_x == <<"x">>
S_neg1 == <<"-","1">>
S_date == <<"2","0","2","4","-","0","1","-","1","5">>
S_notadate == <<"n","o","t","-","a","-","d","a","t","e">>
S_baddate == <<"2","0","2","4","-","1","3","-","4","5">>
S_Al == <<"A","l">>
S_mail == <<"a","@","b",".","i","o">>
S_ab == <<"a","b">>
S_555 == <<"5","5","5">>
S_pending == <<"p","e","n","d","i","n","g">>
S_Confirmed == <<"C","o","n","f","i","r","m","e","d">>
S_bogus == <<"b","o","g","u","s">>
S_gluten == <<"g","l","u","t","e","n">>
S_Dairy == <<"D","a","i","r","y">>
S_rye == <<"r","y","e">>
S_hi == <<"h","i">>
S_True == <<"T","r","u","e">>
S_TRUE == <<"T","R","U","E">>
S_yes == <<"y","e","s">>
S_up == <<"u","p">>
S_invalid_sort == <<"i","n","v","a","l","i","d","_","s","o","r","t">>
S_admin == <<"a","d","m","i","n">>
S_INVALID_ROLE == <<"I","N","V","A","L","I","D","_","R","O","L","E">>
S_pw == <<"p","w">>
S_empty == <<>>

(* sequences over S of length at most n *)
SeqsUpTo(S, n) == UNION {[1..m -> S] : m \in 0..n}

Spaces(n) == [i \in 1..n |-> " "]

RECURSIVE JoinComma(_)
JoinComma(a) ==
    IF Len(a) = 0 THEN <<>>
    ELSE IF Len(a) = 1 THEN a[1]
    ELSE a[1] \o <<",">> \o JoinComma(Tail(a))

(* pads[i] = <<l, r>>: the white space put before and after token i *)
PadSeqs(n) == [1..n -> (0..MaxPad) \X (0..MaxPad)]
Padded(a, pads) == [i \in 1..Len(a) |-> Spaces(pads[i][1]) \o a[i] \o Spaces(pads[i][2])]

(* the same white space <<l, r>> around every token *)
PadPairs == (0..MaxPad) \X (0..MaxPad)
PaddedBy(a, p) == Padded(a, [i \in 1..Len(a) |-> p])

(* every comma-joined string of at most MaxTokens tokens of pool, padded *)
JoinedStrings(pool) ==
    {JoinComma(PaddedBy(a, p)) : a \in SeqsUpTo(pool, MaxTokens), p \in PadPairs}

StrArray(a) == Arr([i \in 1..Len(a) |-> Str(a[i])])

AllergyTokens == {S_gluten, S_Dairy, S_rye}
TableTokens == {S_1, S_2, S_x}
TableElements == {Obj([id |-> Num(1)]), Obj([id |-> Num(2)]), Num(1)}

NumberInputs ==
    {Num(1), Num(0), Num(0 - 1), Str(S_7), Str(S_abc), Str(S_neg1), Str(S_empty),
     Bool(TRUE), Null, Arr(<<>>), Undef}
DateInputs ==
    {DateV(20240115), InvalidDate, Str(S_date), Str(S_notadate), Str(S_baddate),
     Num(1), Undef}
StringInputs == {Str(S_Al), Str(S_empty), Num(1), Undef}
BooleanInputs ==
    {Bool(TRUE), Bool(FALSE), Str(STRUE), Str(SFALSE), Str(S_True), Str(S_TRUE),
     Str(S_yes), Str(S_empty), Num(1), Null, Undef}
AllergyInputs ==
    {StrArray(a) : a \in SeqsUpTo(AllergyTokens \cup {S_empty}, MaxTokens)}
        \cup {Str(j) : j \in JoinedStrings(AllergyTokens \cup {S_empty})}
        \cup {Arr(<<Num(1)>>), Num(1), Undef}
TableInputs ==
    {Arr(a) : a \in SeqsUpTo(TableElements, MaxTokens)}
        \cup {Str(j) : j \in JoinedStrings(TableTokens \cup {S_empty})}
        \cup {Num(1), Undef}

(* { price, itemId, specialRequest }, { guestNumber, items } and a prepared item *)
OrderItem == Obj([price |-> Num(1), itemId |-> Num(1), specialRequest |-> Null])
GuestEntry == Obj([guestNumber |-> Num(1), items |-> Arr(<<OrderItem>>)])
PreparedItem == Obj([id |-> Num(1), price |-> Num(10)])
ItemListInputs ==
    {Arr(<<>>), Arr(<<GuestEntry>>), Arr(<<PreparedItem>>), Num(1), Undef}

S_TOMATO == <<"T","O","M","A","T","O">>
S_cheese == <<"c","h","e","e","s","e">>
S_BasIL == <<"B","a","s","I","L">>
S_Tomato == <<"T","o","m","a","t","o">>
S_Cheese == <<"C","h","e","e","s","e">>
S_Basil == <<"B","a","s","i","l">>
S_ingredients == S_TOMATO \o <<",", " ">> \o S_cheese \o <<",", " ">> \o S_BasIL

IngredientInputs ==
    {StrArray(a) : a \in SeqsUpTo({S_Tomato, S_Cheese, S_Basil}, MaxTokens)}
        \cup {Str(j) : j \in JoinedStrings({S_TOMATO, S_cheese, S_BasIL})}
        \cup {Str(S_ingredients), Num(1), Undef}

Candidates(k) ==
    CASE k \in {"id", "guestsCount", "guestsCountMin", "guestsCountMax"} -> NumberInputs
      [] k \in {"time", "createdAt", "updatedAt", "timeStart", "timeEnd",
                "createdAfter", "createdBefore", "completedAt"} -> DateInputs
      [] k \in {"name", "phone", "password"} -> StringInputs
      [] k = "email" -> {Str(S_mail), Str(S_ab), Null, Num(1), Undef}
      [] k = "comments" -> {Str(S_hi), Null, Num(1), Undef}
      [] k = "status" ->
            {Str(S_pending), Str(CONFIRMED), Str(S_Confirmed), Str(S_bogus),
             Str(COMPLETED), Num(1), Undef}
      [] k = "role" -> {Str(S_admin), Str(ADMIN), Str(S_INVALID_ROLE), Undef}
      [] k = "allergies" -> AllergyInputs
      [] k = "tables" -> TableInputs
      [] k = "isActive" -> BooleanInputs
      [] k = "page" -> {Num(1), Num(2), Num(0), Str(S_0), Str(S_2), Undef}
      [] k = "pageSize" ->
            {Num(DefaultPageSize), Num(MaxPageSize), Num(MaxPageSize + 1), Str(S_20), Undef}
      [] k = "sortOrder" -> {Str(ASC), Str(DESC), Str(S_up), Undef}
      [] k = "sortBy" -> {Str(TIME), Str(S_id), Str(S_invalid_sort), Undef}
      [] k = "amount" -> {Num(50), Num(0), Num(0 - 50), Str(S_abc), Undef}
      [] k \in {"tax", "tip", "serviceCharge"} -> {Num(5), Num(0 - 5), Undef}
      [] k = "paymentType" -> {Str(CASH), Str(S_bogus), Undef}
      [] k = "orderId" -> {Num(1), Num(0 - 1), Undef}
      [] k \in {"tableNumber", "capacity"} -> NumberInputs
      [] k = "serverId" -> {Num(1), Str(S_7), Undef}
      [] k = "description" -> {Str(S_hi), Undef}
      [] k = "price" -> {Num(10), Num(0 - 1), Undef}
      [] k = "ingredients" -> IngredientInputs
      [] k \in {"foodItems", "drinkItems"} -> ItemListInputs
      [] k = "extra" -> {Str(S_x), Undef}

(* a payload that ReservationSchema accepts, with every optional key absent *)
ValidReservation ==
    [k \in AllKeys |->
        CASE k = "id" -> Num(1)
          [] k = "guestsCount" -> Num(2)
          [] k = "time" -> DateV(20240115)
          [] k = "name" -> Str(S_Al)
          [] k = "phone" -> Str(S_555)
          [] k = "allergies" -> Arr(<<>>)
          [] k = "tables" -> Arr(<<>>)
          [] k = "updatedAt" -> DateV(20240101)
          [] OTHER -> Absent]

(* a payload that PaymentSchema accepts, with every optional key absent *)
ValidPayment ==
    [k \in AllKeys |->
        CASE k = "id" -> Num(1)
          [] k = "amount" -> Num(50)
          [] k = "paymentType" -> Str(CREDIT_CARD)
          [] k = "orderId" -> Num(1)
          [] k = "status" -> Str(PENDING)
          [] k = "createdAt" -> DateV(20240101)
          [] k = "completedAt" -> DateV(20240115)
          [] OTHER -> Absent]

(* a payload that TableCreateSchema accepts *)
ValidTableCreate ==
    [k \in AllKeys |->
        CASE k = "tableNumber" -> Num(10)
          [] k = "capacity" -> Num(6)
          [] OTHER -> Absent]

(* an order without items, and an items update without items *)
NoItemsOrder ==
    [k \in AllKeys |->
        CASE k \in {"tableNumber", "guestsCount", "serverId"} -> Num(1)
          [] k \in {"foodItems", "drinkItems"} -> Arr(<<>>)
          [] OTHER -> Absent]

EmptyItems ==
    [k \in AllKeys |-> IF k \in {"foodItems", "drinkItems"} THEN Arr(<<>>) ELSE Absent]

(* the keys of the reservation, search, user, payment and table schemas *)
CoreKeys == AllKeys \ (OrderOnlyKeys \cup ItemOnlyKeys)

(* a payload that baseItemSchema accepts *)
ValidItem ==
    [k \in AllKeys |->
        CASE k = "id" -> Num(1)
          [] k = "name" -> Str(S_Al)
          [] k = "description" -> Str(S_hi)
          [] k = "price" -> Num(10)
          [] k = "ingredients" -> StrArray(<<S_Tomato>>)
          [] OTHER -> Absent]

Bases == {EmptyObject, ValidReservation}

(* payload b with one key of keys set to a candidate value, or removed *)
Variants(b, keys) ==
    UNION {{[b EXCEPT ![k] = x] : x \in Candidates(k) \cup {Absent}} : k \in keys}

Payloads ==
    UNION {Variants(b, CoreKeys) : b \in Bases}
        \cup Variants(ValidPayment, PaymentKeys)
        \cup Variants(ValidTableCreate, TableCreateKeys)
        \cup Variants(NoItemsOrder, OrderUpdateItemsKeys)
        \cup Variants(EmptyItems, OrderUpdateItemsKeys)
        \cup Variants(EmptyObject, OrderUpdateItemsKeys)
        \cup Variants(ValidItem, ItemOnlyKeys)

(* ------------------------------------------------------------------ *)
(* The state machine: one payload, parsed by one schema at a time     *)
(* ------------------------------------------------------------------ *)
NoResult == [schema |-> "none", ok |-> FALSE, value |-> EmptyObject, issues |-> {}]

Returned(name, r) ==
    [schema |-> name, ok |-> r.ok, value |-> r.value, issues |-> r.issues]

(* the call made before the current one: nothing yet *)
NoCall == [input |-> EmptyObject, result |-> NoResult]

(* the callers of the interleaved calls *)
Callers == {"a", "b"}

(* the keys of ReservationSchema in the order of its definition *)
KeyOrder ==
    <<"id", "guestsCount", "time", "name", "email", "phone", "status",
      "allergies", "tables", "comments", "createdAt", "updatedAt", "isActive">>

(* the context of one call of ReservationSchema.parse on payload p: the *)
(* keys parsed so far, their results, the clock reading it took         *)
NewCall(p) ==
    [input |-> p, pc |-> 0, fr |-> [k \in ReservationKeys |-> Fail],
     clk |-> 0, result |-> NoResult]

(* no interleaved call is under way *)
NoCalls == [c \in Callers |-> NewCall(EmptyObject)]

Init ==
    /\ input \in Payloads
    /\ result = NoResult
    /\ now = 0
    /\ prev = NoCall
    /\ calls = NoCalls

Idle == result.schema = "none"

(* ParseReservation with a transition rule: nothing follows CANCELLED *)
ParseReservation_TransitionChecked ==
    /\ Idle
    /\ result' = Returned("ReservationSchema",
                     refine(ReservationSchema(input, now),
                            ~(/\ prev.result.schema = "ReservationSchema"
                              /\ prev.result.ok
                              /\ prev.result.value["status"] = Str(CANCELLED))))
    /\ UNCHANGED <<input, now, prev, calls>>

ParseReservation ==
    /\ Idle
    /\ result' = Returned("ReservationSchema", ReservationSchema(input, now))
    /\ UNCHANGED <<input, now, prev, calls>>

ParseCreateReservation ==
    /\ Idle
    /\ result' = Returned("CreateReservationSchema", CreateReservationSchema(input, now))
    /\ UNCHANGED <<input, now, prev, calls>>

ParseUpdateReservation ==
    /\ Idle
    /\ result' = Returned("UpdateReservationSchema", UpdateReservationSchema(input, now))
    /\ UNCHANGED <<input, now, prev, calls>>

ParseReservationGuestInfo ==
    /\ Idle
    /\ result' = Returned("ReservationGuestInfoSchema", ReservationGuestInfoSchema(input, now))
    /\ UNCHANGED <<input, now, prev, calls>>

ParseReservationSearchCriteria ==
    /\ Idle
    /\ result' = Returned("ReservationSearchCriteria", ReservationSearchCriteria(input, now))
    /\ UNCHANGED <<input, now, prev, calls>>

ParseUpdateUser ==
    /\ Idle
    /\ result' = Returned("UpdateUserSchema", UpdateUserSchema(input))
    /\ UNCHANGED <<input, now, prev, calls>>

ParseUserParam ==
    /\ Idle
    /\ result' = Returned("UserParamSchema", UserParamSchema(input))
    /\ UNCHANGED <<input, now, prev, calls>>

ParseOrderUpdateProps ==
    /\ Idle
    /\ result' = Returned("OrderUpdateProps", OrderUpdateProps(input))
    /\ UNCHANGED <<input, now, prev, calls>>

ParsePayment ==
    /\ Idle
    /\ result' = Returned("PaymentSchema", PaymentSchema(input))
    /\ UNCHANGED <<input, now, prev, calls>>

ParseTableCreate ==
    /\ Idle
    /\ result' = Returned("TableCreateSchema", TableCreateSchema(input))
    /\ UNCHANGED <<input, now, prev, calls>>

ParseTableSearchCriteria ==
    /\ Idle
    /\ result' = Returned("TableSearchCriteriaSchema", TableSearchCriteriaSchema(input))
    /\ UNCHANGED <<input, now, prev, calls>>

ParseBaseItem ==
    /\ Idle
    /\ result' = Returned("baseItemSchema", baseItemSchema(input))
    /\ UNCHANGED <<input, now, prev, calls>>

ParseOrderCreate ==
    /\ Idle
    /\ result' = Returned("OrderCreateSchema", OrderCreateSchema(input))
    /\ UNCHANGED <<input, now, prev, calls>>

ParseOrderUpdateItems ==
    /\ Idle
    /\ result' = Returned("OrderUpdateItemsSchema", OrderUpdateItemsSchema(input))
    /\ UNCHANGED <<input, now, prev, calls>>

ParsePrepareItems ==
    /\ Idle
    /\ result' = Returned("PrepareItems", PrepareItems(input))
    /\ UNCHANGED <<input, now, prev, calls>>

(* arrayQueryParamSchema.parse(query.allergies) *)
ParseArrayQueryParam ==
    /\ Idle
    /\ input["allergies"] # Absent
    /\ LET r == arrayQueryParamSchema(input["allergies"]) IN
       result' = [schema |-> "arrayQueryParamSchema",
                  ok |-> r.ok,
                  value |-> IF r.ok THEN [EmptyObject EXCEPT !["allergies"] = r.v]
                            ELSE EmptyObject,
                  issues |-> IF r.ok THEN {} ELSE {RootPath}]
    /\ UNCHANGED <<input, now, prev, calls>>

(* parseQueryArray(query.allergies), the value being undefined, a string *)
(* or a list of strings                                                 *)
CallParseQueryArray ==
    /\ Idle
    /\ LET value == Get(input, "allergies") IN
       /\ value = Undef \/ IsStr(value)
             \/ (IsArr(value) /\ \A i \in 1..Len(value.v) : IsStr(value.v[i]))
       /\ result' = [schema |-> "parseQueryArray",
                     ok |-> TRUE,
                     value |-> [EmptyObject EXCEPT !["allergies"] = Arr(parseQueryArray(value))],
                     issues |-> {}]
    /\ UNCHANGED <<input, now, prev, calls>>

(* the caller takes the result; the same payload may be parsed again *)
Return ==
    /\ ~Idle
    /\ result' = NoResult
    /\ UNCHANGED <<input, now, prev, calls>>

(* time passes *)
Tick ==
    /\ now < MaxClock
    /\ now' = now + 1
    /\ UNCHANGED <<input, result, prev, calls>>

Next ==
    \/ ParseReservation
    \/ ParseCreateReservation
    \/ ParseUpdateReservation
    \/ ParseReservationGuestInfo
    \/ ParseReservationSearchCriteria
    \/ ParseUpdateUser
    \/ ParseUserParam
    \/ ParseOrderUpdateProps
    \/ ParsePayment
    \/ ParseTableCreate
    \/ ParseTableSearchCriteria
    \/ ParseBaseItem
    \/ ParseOrderCreate
    \/ ParseOrderUpdateItems
    \/ ParsePrepareItems
    \/ ParseArrayQueryParam
    \/ CallParseQueryArray
    \/ Return
    \/ Tick

Spec == Init /\ [][Next]_vars

(* ------------------------------------------------------------------ *)
(* A sequence of calls: payloads submitted one after the other        *)
(* ------------------------------------------------------------------ *)
(* payloads that differ in their status only *)
SeqPayloads ==
    {[ValidReservation EXCEPT !["status"] = x] :
        x \in {Str(s) : s \in ReservationStatus \cup {S_pending, S_bogus}} \cup {Absent}}
      \cup {[ValidPayment EXCEPT !["status"] = Str(s)] : s \in PaymentState \cup {S_bogus}}
      \cup {[EmptyObject EXCEPT !["status"] = Str(s)] : s \in OrderState \cup {S_bogus}}

InitSeq ==
    /\ input \in SeqPayloads
    /\ result = NoResult
    /\ now = 0
    /\ prev = NoCall
    /\ calls = NoCalls

(* the call returns; the caller keeps what it sent and what it got *)
ReturnSeq ==
    /\ ~Idle
    /\ prev' = [input |-> input, result |-> result]
    /\ result' = NoResult
    /\ UNCHANGED <<input, now, calls>>

(* the caller takes the next payload *)
Submit ==
    /\ Idle
    /\ input' \in SeqPayloads
    /\ UNCHANGED <<result, now, prev, calls>>

NextSeq ==
    \/ ParseReservation
    \/ ParsePayment
    \/ ParseOrderUpdateProps
    \/ ReturnSeq
    \/ Submit
    \/ Tick

SpecSeq == InitSeq /\ [][NextSeq]_vars

(* ------------------------------------------------------------------ *)
(* Interleaved calls: two callers parse with ReservationSchema, each  *)
(* call advancing one key of the shape at a time                      *)
(* ------------------------------------------------------------------ *)
ConcPayloads ==
    {ValidReservation, EmptyObject,
     [ValidReservation EXCEPT !["status"] = Str(S_bogus)],
     [ValidReservation EXCEPT !["name"] = Num(1)]}

InitConc ==
    /\ input = EmptyObject
    /\ result = NoResult
    /\ now = 0
    /\ prev = NoCall
    /\ calls \in [Callers -> {NewCall(p) : p \in ConcPayloads}]

(* the result of parsing key k in the call of caller c *)
StepResult(c) ==
    LET k == KeyOrder[calls[c].pc + 1] IN
    ReservationShape(k, Get(calls[c].input, k), now)

(* Step with one context for all callers: the result of the key is    *)
(* written into every call under way                                  *)
Step_SharedContext(c) ==
    /\ calls[c].pc < Len(KeyOrder)
    /\ LET k == KeyOrder[calls[c].pc + 1] IN
       calls' = [d \in Callers |->
                    IF d = c
                    THEN [calls[d] EXCEPT !.pc = @ + 1,
                                          !.fr[k] = StepResult(c),
                                          !.clk = IF k = "createdAt" THEN now ELSE @]
                    ELSE [calls[d] EXCEPT !.fr[k] = StepResult(c)]]
    /\ UNCHANGED <<input, result, now, prev>>

(* the call of caller c parses the next key of the shape into its own *)
(* context; the createdAt default reads the clock                     *)
Step(c) ==
    /\ calls[c].pc < Len(KeyOrder)
    /\ LET k == KeyOrder[calls[c].pc + 1] IN
       calls' = [calls EXCEPT ![c] =
                    [@ EXCEPT !.pc = @ + 1,
                              !.fr[k] = StepResult(c),
                              !.clk = IF k = "createdAt" THEN now ELSE @]]
    /\ UNCHANGED <<input, result, now, prev>>

(* every key is parsed: the call of caller c returns *)
Finish(c) ==
    /\ calls[c].pc = Len(KeyOrder)
    /\ calls[c].result = NoResult
    /\ calls' = [calls EXCEPT ![c].result =
                    Returned("ReservationSchema",
                             ZodObject(ReservationKeys, calls[c].fr, calls[c].input))]
    /\ UNCHANGED <<input, result, now, prev>>

StepCall == \E c \in Callers : Step(c)

FinishCall == \E c \in Callers : Finish(c)

NextConc ==
    \/ StepCall
    \/ FinishCall
    \/ Tick

SpecConc == InitConc /\ [][NextConc]_vars

(* ------------------------------------------------------------------ *)
(* Properties                                                         *)
(* ------------------------------------------------------------------ *)
Called(name) == result.schema = name

(* the payload is ValidReservation except, possibly, for key k *)
ValidExcept(k) == \A j \in AllKeys \ {k} : input[j] = ValidReservation[j]

(* the payload holds key k and nothing else *)
Only(k) == ObjectKeys(input) = {k}

UpdateSchemas ==
    {"UpdateReservationSchema", "ReservationGuestInfoSchema", "UpdateUserSchema",
     "OrderUpdateProps"}

(* C1: every update schema (UpdateReservationSchema,                   *)
(* ReservationGuestInfoSchema, UpdateUserSchema, OrderUpdateProps)      *)
(* rejects the empty object with a validation failure.                 *)
C1_EmptyUpdateRejected ==
    (result.schema \in UpdateSchemas /\ input = EmptyObject) => ~result.ok

C1_Witness ==
    /\ Called("UpdateReservationSchema")
    /\ input = EmptyObject
    /\ ~result.ok
    /\ result.issues = {RootPath}

UpdateKeysOf(name) ==
    CASE name = "UpdateReservationSchema" -> UpdateReservationKeys
      [] name = "ReservationGuestInfoSchema" -> ReservationGuestInfoKeys
      [] OTHER -> {}

(* C2: for UpdateReservationSchema and ReservationGuestInfoSchema and   *)
(* every field f of the schema, a payload that holds only f, with a     *)
(* value that ReservationSchema accepts for f, is accepted, and the     *)
(* output carries the value ReservationSchema normalizes f to.          *)
C2_SingleFieldUpdate ==
    \A f \in UpdateKeysOf(result.schema) :
        (Only(f) /\ input[f] # Undef /\ ReservationShape(f, input[f], now).ok)
            => /\ result.ok
               /\ result.value[f] = ReservationShape(f, input[f], now).v
               /\ ObjectKeys(result.value) = {f}

C2_Witness ==
    /\ Called("ReservationGuestInfoSchema")
    /\ Only("allergies")
    /\ input["allergies"] = Str(S_gluten \o <<",">> \o S_Dairy)
    /\ result.ok
    /\ result.value["allergies"] = Arr(<<Str(GLUTEN), Str(DAIRY)>>)

(* the Allergy member a token of the payloads stands for, if any *)
IsMemberToken(tok) == tok \in {S_gluten, S_Dairy}
MemberOf(tok) == IF tok = S_gluten THEN GLUTEN ELSE DAIRY

AllergyLists == SeqsUpTo(AllergyTokens \cup {S_empty}, MaxTokens)

(* what C3 expects of ReservationSchema for the tokens a *)
C3_Expect(a) ==
    IF \A i \in 1..Len(a) : IsMemberToken(a[i])
    THEN /\ result.ok
         /\ result.value["allergies"] = Arr([i \in 1..Len(a) |-> Str(MemberOf(a[i]))])
    ELSE ~result.ok

(* the string forms of the token lists: <<string, its non-empty tokens>> *)
C3_StringCases ==
    {<<Str(JoinComma(PaddedBy(a, p))), filterBoolean(a)>> : a \in AllergyLists, p \in PadPairs}

(* C3: ReservationSchema.allergies accepts a list of strings or one     *)
(* comma-separated string; on success it yields the canonical           *)
(* upper-case Allergy members in input order, and a token that is no    *)
(* Allergy member after upper-casing makes the parse fail.              *)
C3_AllergiesNormalized ==
    (Called("ReservationSchema") /\ ValidExcept("allergies"))
        => /\ \A a \in AllergyLists :
                 input["allergies"] = StrArray(a) => C3_Expect(a)
           /\ \A c \in C3_StringCases :
                 input["allergies"] = c[1] => C3_Expect(c[2])

C3_Witness ==
    /\ Called("ReservationSchema")
    /\ ValidExcept("allergies")
    /\ input["allergies"] = Str(<<" ">> \o S_gluten \o <<" ", ",", " ">> \o S_Dairy \o <<" ">>)
    /\ result.ok
    /\ result.value["allergies"] = Arr(<<Str(GLUTEN), Str(DAIRY)>>)

TokenLists == SeqsUpTo(AllergyTokens, MaxTokens)

(* the outcome, ok and normalized list, of a parse of field allergies *)
ListOutcome(r) == <<r.ok, r.value["allergies"]>>

(* T as a comma-joined string, with any white space around each token *)
StringForms(T) == {Str(JoinComma(Padded(T, pads))) : pads \in PadSeqs(Len(T))}

(* for every token list T: T as a native list, the outcomes of            *)
(* ReservationSchema over the string forms of T (the other fields valid), *)
(* and the results of arrayQueryParamSchema over them                     *)
C4_Cases ==
    {<<StrArray(T),
       {ListOutcome(ReservationSchema([ValidReservation EXCEPT !["allergies"] = s], 0)) :
            s \in StringForms(T)},
       {arrayQueryParamSchema(s) : s \in StringForms(T)}>> : T \in TokenLists}

(* C4: for a list of tokens T, ReservationSchema.allergies and          *)
(* arrayQueryParamSchema give the same normalized list (or both fail)   *)
(* for T as a native list and for T as a comma-joined string with       *)
(* arbitrary white space around each token.                             *)
C4_ListStringCommute ==
    \A c \in C4_Cases :
        input["allergies"] = c[1] =>
            /\ (Called("ReservationSchema") /\ ValidExcept("allergies"))
                  => c[2] = {ListOutcome(result)}
            /\ Called("arrayQueryParamSchema")
                  => c[3] = {[ok |-> result.ok, v |-> result.value["allergies"]]}

C4_Witness ==
    /\ Called("ReservationSchema")
    /\ ValidExcept("allergies")
    /\ input["allergies"] = StrArray(<<S_gluten, S_Dairy>>)
    /\ result.ok
    /\ result.value["allergies"] = Arr(<<Str(GLUTEN), Str(DAIRY)>>)
    /\ ReservationSchema(
          [input EXCEPT !["allergies"] = Str(<<" ">> \o S_gluten \o <<" ", ",">> \o S_Dairy)],
          now).value["allergies"] = result.value["allergies"]

(* C5: ReservationSchema.tables, when the tables key is absent, yields  *)
(* the empty list and the parse does not fail.                          *)
C5_TablesDefault ==
    (Called("ReservationSchema") /\ ValidExcept("tables") /\ input["tables"] = Absent)
        => (result.ok /\ result.value["tables"] = Arr(<<>>))

TableObjectLists == SeqsUpTo({Obj([id |-> Num(1)]), Obj([id |-> Num(2)])}, MaxTokens)

(* C6: ReservationSchema.tables given a non-empty list of               *)
(* table-identity objects {id: n} with valid ids is accepted and        *)
(* normalized to the list of the ids n, in order.                       *)
C6_TablesFromObjects ==
    (Called("ReservationSchema") /\ ValidExcept("tables"))
        => \A a \in TableObjectLists :
              (Len(a) > 0 /\ input["tables"] = Arr(a))
                  => /\ result.ok
                     /\ result.value["tables"] = Arr([i \in 1..Len(a) |-> a[i].v.id])

TableSegmentLists == SeqsUpTo(TableTokens \cup {S_empty}, MaxTokens)
IsNumericToken(tok) == tok \in {S_1, S_2}
TableNumberOf(tok) == IF tok = S_1 THEN Num(1) ELSE Num(2)

(* what C7 expects of ReservationSchema for the non-empty segments a *)
C7_Expect(a) ==
    IF \A i \in 1..Len(a) : IsNumericToken(a[i])
    THEN /\ result.ok
         /\ result.value["tables"] = Arr([i \in 1..Len(a) |-> TableNumberOf(a[i])])
    ELSE ~result.ok

(* the string forms of the segment lists: <<string, its non-empty segments>> *)
C7_StringCases ==
    {<<Str(JoinComma(PaddedBy(a, p))), filterBoolean(a)>> : a \in TableSegmentLists, p \in PadPairs}

(* C7: ReservationSchema.tables given a comma-separated string splits   *)
(* on commas, trims each segment and drops the empty segments; a        *)
(* segment that is not numeric makes the parse fail.                    *)
C7_TablesFromString ==
    (Called("ReservationSchema") /\ ValidExcept("tables"))
        => \A c \in C7_StringCases : input["tables"] = c[1] => C7_Expect(c[2])

DateKeys ==
    {"time", "timeStart", "timeEnd", "createdAfter", "createdBefore"}

ShapeKeysOf(name) ==
    CASE name = "ReservationSchema" -> ReservationKeys
      [] name = "CreateReservationSchema" -> CreateReservationKeys
      [] name = "UpdateReservationSchema" -> UpdateReservationKeys
      [] name = "ReservationGuestInfoSchema" -> ReservationGuestInfoKeys
      [] name = "ReservationSearchCriteria" -> ReservationSearchKeys
      [] name = "UpdateUserSchema" -> UpdateUserKeys
      [] name = "UserParamSchema" -> UserParamKeys
      [] name = "OrderUpdateProps" -> OrderUpdateKeys
      [] OTHER -> {}

(* C8: a date field given as a string is accepted only if the string    *)
(* parses to a valid date; an unparseable string never yields a success *)
(* that carries an invalid date.                                        *)
C8_DateStringValid ==
    \A k \in DateKeys \cap ShapeKeysOf(result.schema) :
        (IsStr(input[k]) /\ result.ok) => IsDate(result.value[k])

(* C9: ReservationSchema.isActive given a string other than "true" and  *)
(* "false" ends in a validation failure or in the default true; a       *)
(* successful parse never returns isActive undefined or a non-boolean.  *)
C9_IsActiveBoolean ==
    (Called("ReservationSchema") /\ result.ok) => IsBool(result.value["isActive"])

(* C10: a boolean-or-string field (ReservationSchema.isActive,          *)
(* UserParamSchema.isActive) maps "true" to true and "false" to false,  *)
(* passes a boolean through unchanged and matches the literals          *)
(* case-sensitively ("True" is not mapped to true).                     *)
C10_BooleanFromString ==
    ((Called("ReservationSchema") /\ ValidExcept("isActive"))
        \/ (Called("UserParamSchema") /\ Only("isActive")))
        => LET x == input["isActive"] IN
           /\ x = Str(STRUE) => (result.ok /\ result.value["isActive"] = Bool(TRUE))
           /\ x = Str(SFALSE) => (result.ok /\ result.value["isActive"] = Bool(FALSE))
           /\ IsBool(x) => (result.ok /\ result.value["isActive"] = x)
           /\ x \in {Str(S_True), Str(S_TRUE)}
                 => ~(result.ok /\ result.value["isActive"] = Bool(TRUE))

C10_Witness ==
    /\ Called("ReservationSchema")
    /\ ValidExcept("isActive")
    /\ input["isActive"] = Str(S_True)
    /\ result.ok
    /\ result.value["isActive"] = Undef

(* the payload is base payload b except, possibly, for key k *)
BaseExcept(b, k) == \A j \in AllKeys \ {k} : input[j] = b[j]

C12_Canonical ==
    {<<S_pending, PENDING>>, <<S_Confirmed, CONFIRMED>>, <<CONFIRMED, CONFIRMED>>,
     <<S_admin, ADMIN>>, <<ADMIN, ADMIN>>}

(* what C12 expects for field k given the string x and the members E *)
C12_Expect(k, x, E) ==
    IF \E c \in C12_Canonical : c[1] = x /\ c[2] \in E
    THEN /\ result.ok
         /\ \A c \in C12_Canonical : c[1] = x => result.value[k] = Str(c[2])
    ELSE ~result.ok

(* C12: a case-insensitive enum field (ReservationSchema.status,         *)
(* UserParamSchema.role) maps a lower-case or mixed-case spelling of a   *)
(* member to the canonical upper-case member and rejects every string    *)
(* that is no member after upper-casing; it never substitutes the        *)
(* default or another member.                                            *)
C12_EnumCaseNormalized ==
    /\ (Called("ReservationSchema") /\ ValidExcept("status") /\ IsStr(input["status"]))
          => C12_Expect("status", input["status"].v, ReservationStatus)
    /\ (Called("UserParamSchema") /\ Only("role") /\ IsStr(input["role"]))
          => C12_Expect("role", input["role"].v, UserRole)

C12_Witness ==
    /\ Called("ReservationSchema")
    /\ ValidExcept("status")
    /\ input["status"] = Str(S_Confirmed)
    /\ result.ok
    /\ result.value["status"] = Str(CONFIRMED)

(* a negative value, as a number or as a numeric string *)
IsNegative(x) == (IsNum(x) /\ x.v < 0) \/ x = Str(S_neg1)

(* C13: an input that is valid except for a negative value in one        *)
(* non-negative or positive numeric field (Reservation id, guestsCount;  *)
(* Payment amount, tax, tip, serviceCharge; TableCreate tableNumber,     *)
(* capacity) fails validation on that field: the parse never succeeds.   *)
C13_NegativeRejected ==
    /\ \A k \in {"id", "guestsCount"} :
          (Called("ReservationSchema") /\ ValidExcept(k) /\ IsNegative(input[k]))
              => (~result.ok /\ result.issues = {k})
    /\ \A k \in {"amount", "tax", "tip", "serviceCharge"} :
          (Called("PaymentSchema") /\ BaseExcept(ValidPayment, k) /\ IsNegative(input[k]))
              => (~result.ok /\ result.issues = {k})
    /\ \A k \in TableCreateKeys :
          (Called("TableCreateSchema") /\ BaseExcept(ValidTableCreate, k)
             /\ IsNegative(input[k]))
              => (~result.ok /\ result.issues = {k})

C13_Witness ==
    /\ Called("ReservationSchema")
    /\ ValidExcept("guestsCount")
    /\ input["guestsCount"] = Num(0 - 1)
    /\ ~result.ok
    /\ result.issues = {"guestsCount"}

(* what C14 expects of numeric-from-string field k *)
C14_Expect(k) ==
    LET x == input[k] IN
    /\ x = Num(1) => (result.ok /\ result.value[k] = Num(1))
    /\ x = Str(S_7) => (result.ok /\ result.value[k] = Num(7))
    /\ x = Str(S_abc) => ~result.ok
    /\ x.t \in {"boolean", "null", "array", "object"} => ~result.ok

(* C14: a numeric-from-string field (Reservation id, guestsCount;        *)
(* TableCreateSchema tableNumber, capacity) accepts exactly a number or  *)
(* a numeric string and returns the number; a non-numeric string and a   *)
(* value of any other runtime type (boolean, null, list, object) fail.   *)
C14_NumericFromString ==
    /\ \A k \in {"id", "guestsCount"} :
          (Called("ReservationSchema") /\ ValidExcept(k)) => C14_Expect(k)
    /\ \A k \in TableCreateKeys :
          (Called("TableCreateSchema") /\ BaseExcept(ValidTableCreate, k)) => C14_Expect(k)

SearchSchemas == {"ReservationSearchCriteria", "TableSearchCriteriaSchema"}

(* the documented default sortBy of a search schema *)
DefaultSortBy(name) == IF name = "ReservationSearchCriteria" THEN TIME ELSE S_id

(* C15: every search schema accepts the empty object and returns fully   *)
(* defaulted pagination: page 1, pageSize 10, sortOrder "asc" and the    *)
(* default sortBy of the entity ("time" for ReservationSearchCriteria,   *)
(* "id" for tables).                                                     *)
C15_SearchDefaults ==
    (result.schema \in SearchSchemas /\ input = EmptyObject)
        => /\ result.ok
           /\ result.value["page"] = Num(DefaultPage)
           /\ result.value["pageSize"] = Num(DefaultPageSize)
           /\ result.value["sortOrder"] = Str(ASC)
           /\ result.value["sortBy"] = Str(DefaultSortBy(result.schema))
           /\ ObjectKeys(result.value) = PaginationKeys \cup {"sortBy"}

C15_Witness ==
    /\ Called("ReservationSearchCriteria")
    /\ input = EmptyObject
    /\ result.ok
    /\ result.value["sortBy"] = Str(TIME)
    /\ result.value["page"] = Num(DefaultPage)

(* C16: in every search schema, ReservationSearchCriteria included,      *)
(* sortBy accepts only a member of the entity's set of sortable columns; *)
(* any other string ("invalid_sort") makes the parse fail.               *)
C16_SortByEnumerated ==
    (result.schema \in SearchSchemas /\ input["sortBy"] = Str(S_invalid_sort))
        => ~result.ok

(* C17: in every search schema a page below 1, given as a number or as   *)
(* a numeric string, and a pageSize above 100 are rejected; they are     *)
(* never clamped into range or replaced by the default.                  *)
C17_PagingBounds ==
    result.schema \in SearchSchemas
        => /\ input["page"] \in {Num(0), Str(S_0)}
                 => (~result.ok /\ "page" \in result.issues)
           /\ input["pageSize"] = Num(MaxPageSize + 1)
                 => (~result.ok /\ "pageSize" \in result.issues)

C17_Witness ==
    /\ Called("ReservationSearchCriteria")
    /\ input = [EmptyObject EXCEPT !["page"] = Str(S_0)]
    /\ ~result.ok
    /\ result.issues = {"page"}

(* the identity and audit fields CreateReservationSchema omits *)
ForgedKeys == {"id", "createdAt", "updatedAt", "isActive"}

(* the payload without its identity and audit keys *)
Unforged(data) == [k \in AllKeys |-> IF k \in ForgedKeys THEN Absent ELSE data[k]]

(* C18: identity and audit fields cannot be forged through              *)
(* CreateReservationSchema: the outcome for a payload is the outcome    *)
(* for the same payload without id, createdAt, updatedAt and isActive   *)
(* (so two payloads that differ only there have the same outcome), a    *)
(* successful output never holds those keys, and the remaining fields   *)
(* keep the rules of ReservationSchema.                                 *)
C18_NoForgery ==
    Called("CreateReservationSchema")
        => /\ Returned("CreateReservationSchema",
                       CreateReservationSchema(Unforged(input), now)) = result
           /\ ObjectKeys(result.value) \cap ForgedKeys = {}
           /\ result.ok <=> \A k \in ReservationKeys \ ForgedKeys :
                               ReservationShape(k, Get(input, k), now).ok

C18_Witness ==
    /\ Called("CreateReservationSchema")
    /\ ValidExcept("createdAt")
    /\ input["createdAt"] = Str(S_notadate)
    /\ input["id"] = Num(1)
    /\ result.ok
    /\ result.value["createdAt"] = Absent
    /\ result.value["id"] = Absent

(* C19: parse is idempotent on its own output: for every input that     *)
(* ReservationSchema (or PaymentSchema) accepts, parsing the result     *)
(* again succeeds and returns an equal value.                           *)
C19_ParseIdempotent ==
    /\ (Called("ReservationSchema") /\ result.ok)
          => LET again == ReservationSchema(result.value, now) IN
             again.ok /\ again.value = result.value
    /\ (Called("PaymentSchema") /\ result.ok)
          => LET again == PaymentSchema(result.value) IN
             again.ok /\ again.value = result.value

(* C20: a failing parse of ReservationSchema reports every offending    *)
(* field, not only the first: every field whose value its schema        *)
(* rejects is named by an issue of the failure.                         *)
C20_AllIssuesReported ==
    Called("ReservationSchema")
        => LET F == {k \in ReservationKeys : ~ReservationShape(k, Get(input, k), now).ok} IN
           /\ F # {} => ~result.ok
           /\ F \subseteq result.issues

C20_Witness ==
    /\ Called("ReservationSchema")
    /\ input = [EmptyObject EXCEPT !["guestsCount"] = Str(S_abc)]
    /\ ~result.ok
    /\ result.issues =
          {"id", "guestsCount", "time", "name", "phone", "allergies", "tables", "updatedAt"}

(* C24: ReservationSchema.allergies, ReservationSchema.tables and        *)
(* arrayQueryParamSchema given the empty string yield the empty list     *)
(* and never a validation failure.                                       *)
C24_EmptyStringEmptyList ==
    /\ \A k \in {"allergies", "tables"} :
          (Called("ReservationSchema") /\ ValidExcept(k) /\ input[k] = Str(S_empty))
              => (result.ok /\ result.value[k] = Arr(<<>>))
    /\ (Called("arrayQueryParamSchema") /\ input["allergies"] = Str(S_empty))
          => (result.ok /\ result.value["allergies"] = Arr(<<>>))

C24_Witness ==
    /\ Called("ReservationSchema")
    /\ ValidExcept("tables")
    /\ input["tables"] = Str(S_empty)
    /\ result.ok
    /\ result.value["tables"] = Arr(<<>>)

PartialSchemas ==
    {"UpdateReservationSchema", "ReservationGuestInfoSchema", "ReservationSearchCriteria"}

(* C28: schemas derived with partial() do not inject the base defaults:  *)
(* a successful parse by UpdateReservationSchema,                        *)
(* ReservationGuestInfoSchema or ReservationSearchCriteria holds status, *)
(* isActive or tables only when the input supplied that key, and an      *)
(* update of {name} alone returns exactly {name}.                        *)
C28_PartialNoDefaults ==
    (result.schema \in PartialSchemas /\ result.ok)
        => /\ \A k \in {"status", "isActive", "tables"} :
                 input[k] = Absent => result.value[k] = Absent
           /\ (result.schema # "ReservationSearchCriteria" /\ Only("name"))
                 => /\ ObjectKeys(result.value) = {"name"}
                    /\ result.value["name"] = input["name"]

C28_Witness ==
    /\ Called("UpdateReservationSchema")
    /\ Only("name")
    /\ input["name"] = Str(S_Al)
    /\ result.ok
    /\ ObjectKeys(result.value) = {"name"}

(* C29: every payload accepted by UpdateReservationSchema or             *)
(* ReservationGuestInfoSchema yields an output with at least one schema  *)
(* field whose value is defined; a payload whose only key holds          *)
(* undefined, or whose only field is isActive given as a string other    *)
(* than "true" and "false", is rejected as an empty update.              *)
C29_AcceptedUpdateNotEmpty ==
    (result.schema \in {"UpdateReservationSchema", "ReservationGuestInfoSchema"}
       /\ result.ok)
        => \E k \in UpdateKeysOf(result.schema) : result.value[k] \notin {Absent, Undef}

(* C30: the non-emptiness check of an update schema counts only fields  *)
(* of that schema: UpdateReservationSchema and                          *)
(* ReservationGuestInfoSchema reject a payload all of whose keys lie    *)
(* outside their shape (id, createdAt, updatedAt, an unknown key; for   *)
(* the guest-info schema also status), as an empty update.              *)
C30_ForeignKeysDoNotCount ==
    (result.schema \in {"UpdateReservationSchema", "ReservationGuestInfoSchema"}
       /\ ObjectKeys(input) # {}
       /\ ObjectKeys(input) \cap UpdateKeysOf(result.schema) = {})
        => (~result.ok /\ result.issues = {RootPath})

C30_Witness ==
    /\ Called("ReservationGuestInfoSchema")
    /\ input = [EmptyObject EXCEPT !["status"] = Str(CONFIRMED)]
    /\ ~result.ok
    /\ result.issues = {RootPath}

(* foodItems and drinkItems are both empty lists or absent *)
NoItems == \A k \in OrderUpdateItemsKeys : input[k] \in {Absent, Undef, Arr(<<>>)}

(* one of foodItems, drinkItems holds a guest entry with an item, the *)
(* other is empty or absent                                           *)
SomeItems ==
    \E k \in OrderUpdateItemsKeys :
        /\ input[k] = Arr(<<GuestEntry>>)
        /\ \A j \in OrderUpdateItemsKeys \ {k} : input[j] \in {Absent, Undef, Arr(<<>>)}

(* C25: OrderCreateSchema and OrderUpdateItemsSchema reject a payload   *)
(* in which foodItems and drinkItems are both empty (or both absent)    *)
(* and accept one in which at least one of the two holds a guest entry  *)
(* with at least one item; PrepareItems accepts two empty lists.        *)
C25_OrderNeedsItems ==
    /\ (result.schema \in {"OrderCreateSchema", "OrderUpdateItemsSchema"} /\ NoItems)
          => ~result.ok
    /\ (Called("OrderUpdateItemsSchema") /\ SomeItems) => result.ok
    /\ (Called("OrderCreateSchema") /\ SomeItems
           /\ \E k \in OrderUpdateItemsKeys : BaseExcept(NoItemsOrder, k))
          => result.ok
    /\ (Called("PrepareItems") /\ input = EmptyItems) => result.ok

C25_Witness ==
    /\ Called("OrderUpdateItemsSchema")
    /\ input = [EmptyObject EXCEPT !["drinkItems"] = Arr(<<GuestEntry>>)]
    /\ result.ok

(* spellings of ingredients and the title-cased name of each *)
C26_Title == {<<S_TOMATO, S_Tomato>>, <<S_cheese, S_Cheese>>, <<S_BasIL, S_Basil>>}
TitleOf(tok) == (CHOOSE c \in C26_Title : c[1] = tok)[2]

(* comma-separated strings of ingredients and the list each stands for *)
C26_StringCases ==
    {<<Str(JoinComma(PaddedBy(a, p))), [i \in 1..Len(a) |-> TitleOf(a[i])]>> :
        a \in SeqsUpTo({S_TOMATO, S_cheese, S_BasIL}, MaxTokens), p \in PadPairs}
      \cup {<<Str(S_ingredients), <<S_Tomato, S_Cheese, S_Basil>>>>}

(* C26: baseItemSchema.ingredients given a comma-separated string       *)
(* yields the list of trimmed segments, each in title case ("TOMATO,    *)
(* cheese, BasIL" gives Tomato, Cheese, Basil), and given a native list *)
(* of title-cased names yields that same list.                          *)
C26_IngredientsTitleCase ==
    (Called("baseItemSchema") /\ BaseExcept(ValidItem, "ingredients"))
        => /\ \A c \in C26_StringCases :
                 input["ingredients"] = c[1]
                     => (result.ok /\ result.value["ingredients"] = StrArray(c[2]))
           /\ \A a \in SeqsUpTo({S_Tomato, S_Cheese, S_Basil}, MaxTokens) :
                 input["ingredients"] = StrArray(a)
                     => (result.ok /\ result.value["ingredients"] = StrArray(a))

C26_Witness ==
    /\ Called("baseItemSchema")
    /\ BaseExcept(ValidItem, "ingredients")
    /\ input["ingredients"] = Str(S_ingredients)
    /\ result.ok
    /\ result.value["ingredients"] = StrArray(<<S_Tomato, S_Cheese, S_Basil>>)

(* C21: two parse calls of the same schema on equal inputs, made at any  *)
(* two moments, return equal results: a call that follows a call of the *)
(* same schema on an equal payload returns what that call returned.     *)
C21_Deterministic ==
    (~Idle /\ prev.result.schema = result.schema /\ prev.input = input)
        => result = prev.result

(* the payload is base b with status x *)
WithStatus(p, b, x) == p = [b EXCEPT !["status"] = x]

(* C23: validation keeps no history and enforces no status transitions: *)
(* whatever call came before, a payload whose status is a member of the *)
(* schema's enum is accepted and one whose status is no member is       *)
(* rejected (ReservationSchema, PaymentSchema, OrderUpdateProps).       *)
C23_NoTransitions ==
    /\ Called("ReservationSchema") =>
          /\ (\E s \in ReservationStatus : WithStatus(input, ValidReservation, Str(s)))
                => (result.ok /\ result.value["status"] = input["status"])
          /\ WithStatus(input, ValidReservation, Str(S_bogus)) => ~result.ok
    /\ Called("PaymentSchema") =>
          /\ (\E s \in PaymentState : WithStatus(input, ValidPayment, Str(s)))
                => (result.ok /\ result.value["status"] = input["status"])
          /\ WithStatus(input, ValidPayment, Str(S_bogus)) => ~result.ok
    /\ Called("OrderUpdateProps") =>
          /\ (\E s \in OrderState : WithStatus(input, EmptyObject, Str(s)))
                => (result.ok /\ result.value["status"] = input["status"])
          /\ WithStatus(input, EmptyObject, Str(S_bogus)) => ~result.ok

C23_Witness ==
    /\ prev.result.schema = "ReservationSchema"
    /\ prev.result.ok
    /\ WithStatus(prev.input, ValidReservation, Str(CANCELLED))
    /\ Called("ReservationSchema")
    /\ WithStatus(input, ValidReservation, Str(PENDING))
    /\ result.ok
    /\ result.value["status"] = Str(PENDING)

(* the call of caller c has returned *)
Finished(c) == calls[c].result # NoResult

(* C22: interleaved parse calls on the same schema do not interfere:    *)
(* under every interleaving of the two callers, a call that has         *)
(* returned holds the result ReservationSchema gives for its payload    *)
(* alone, at the clock reading the call took.                           *)
C22_NoInterference ==
    \A c \in Callers :
        Finished(c)
            => calls[c].result =
                  Returned("ReservationSchema",
                           ReservationSchema(calls[c].input, calls[c].clk))

C22_Witness ==
    /\ calls["a"].input = ValidReservation
    /\ calls["b"].input = EmptyObject
    /\ Finished("a")
    /\ calls["a"].result.ok
    /\ calls["b"].pc \in 1..(Len(KeyOrder) - 1)
    /\ calls["b"].fr["id"] = Fail

====
